---- MODULE Spec2Model ----
(***************************************************************************)
(* tokio-rustls client adapter (src/src/client.rs): the handshake future   *)
(* MidHandshake and the AsyncRead / AsyncWrite implementation of           *)
(* TlsStream, over an abstract rustls session and an abstract raw          *)
(* endpoint.  The helper type TlsState and the bridging layer Stream       *)
(* (the completion loop) live outside client.rs and are modelled from the  *)
(* written specification (sections 4.1, 4.2, 4.3, 4.4, 6).                 *)
(***************************************************************************)
EXTENDS Integers, Sequences, FiniteSets, TLC

\* ------------------------------------------------------------------ bounds
HsFlights == 1      \* server handshake flights the client has to receive
EdMax == 2          \* bytes the early-data channel accepts in total
SessCap == 1        \* bytes one ordinary session write accepts
WMax == 1           \* records the raw endpoint accepts before it would block
MaxInq == 1         \* records in flight from the peer
MaxSent == 1        \* ordinary plaintext bytes after which the caller stops writing
MaxBuf == 1         \* longest buffer the caller passes to poll_write
MaxRead == 1        \* size of the buffer the caller passes to poll_read
MaxYield == 2       \* cap of the counter of yielded streams
MaxNotify == 2      \* cap of the counter of closing notifications

ErrKinds == {"ConnectionAborted", "ConnectionReset"}
NetEvents == {"hs", "x", "eof"} \cup ErrKinds
RawResults == {"ok", "pending", "BrokenPipe"}

Min(a, b) == IF a < b THEN a ELSE b
Take(q, k) == SubSeq(q, 1, k)
Drop(q, k) == SubSeq(q, k + 1, Len(q))

\* Ciphertext records: a handshake flight, the closing notification, and the
\* record that carries plaintext byte b.
Hs == <<"hs", 0>>
Cn == <<"cn", 0>>
App(b) == <<"app", b>>
AppRecords(q) == [i \in 1..Len(q) |-> App(q[i])]

\* The caller writes a fixed plaintext, the bytes 1, 2, 3, ...: a buffer of k
\* bytes offered after a bytes were accepted holds the bytes a+1 .. a+k.
BufAt(a, k) == [i \in 1..k |-> a + i]

VARIABLES
    mid,         \* MidHandshake variant: "Handshaking" | "EarlyData" | "End"
    yielded,     \* number of streams the driver has handed out
    state,       \* TlsStream.state
    pos,         \* TlsStream.early_data.0, the replay cursor
    data,        \* TlsStream.early_data.1, the buffered early plaintext
    hsLeft,      \* session: handshake flights still to be received
    edState,     \* session: "disabled" | "ready" | "accepted" | "rejected"
    edLeft,      \* session: bytes the early-data channel still accepts
    tx,          \* session: ciphertext records queued for the raw endpoint
    rx,          \* session: decrypted plaintext not yet read
    sent,        \* session: plaintext received through the ordinary write
    cn,          \* session: number of send_close_notify calls
    peerAccepts, \* peer: whether it accepts early data
    acc,         \* caller: bytes of its plaintext that poll_write has accepted
    wire,        \* raw endpoint: records written to it
    wcap,        \* raw endpoint: records it accepts before it would block
    inq,         \* raw endpoint: what its next reads return
    ioClosed,    \* raw endpoint: poll_close returned Ready(Ok)
    hung,        \* caller: a call is looping in the replay and never returns
    ret          \* the last call and its result

vars == <<mid, yielded, state, pos, data, hsLeft, edState, edLeft, tx,
          rx, sent, cn, peerAccepts, acc, wire, wcap, inq, ioClosed, hung, ret>>

\* ---------------------------------------------------------------- TlsState
TlsStates == {"EarlyData", "Stream", "ReadShutdown", "WriteShutdown", "FullyShutdown"}

readable(st) == st \notin {"ReadShutdown", "FullyShutdown"}

writeable(st) == st \notin {"WriteShutdown", "FullyShutdown"}

shutdown_read(st) ==
    IF st \in {"WriteShutdown", "FullyShutdown"} THEN "FullyShutdown" ELSE "ReadShutdown"

shutdown_write(st) ==
    IF st \in {"ReadShutdown", "FullyShutdown"} THEN "FullyShutdown" ELSE "WriteShutdown"

\* ------------------------------------------- the session and the endpoint
\* The session and the raw endpoint a Stream borrows, with the Stream's eof
\* flag and two marks: io (a raw-endpoint call was made) and sess (a session
\* call was made).  A read of the endpoint returns the head of inq: a record
\* ("hs" a handshake flight, "x" a record of application data), end-of-stream
\* or an error; an empty inq means it would block.  scap is the number of
\* bytes the session accepts per ordinary write during the call: SessCap, or 0
\* when it is under backpressure.
Env(eof) ==
    [hsLeft |-> hsLeft, edState |-> edState, edLeft |-> edLeft,
     tx |-> tx, rx |-> rx, sent |-> sent, cn |-> cn, wire |-> wire, wcap |-> wcap,
     inq |-> inq, eof |-> eof, io |-> FALSE, sess |-> FALSE, scap |-> SessCap]

\* The same with the session accepting cap bytes per ordinary write.
EnvCap(cap) == [Env(FALSE) EXCEPT !.scap = cap]

is_handshaking(s) == s.hsLeft > 0

wants_write(s) == s.tx # <<>>

wants_read(s) == s.rx = <<>>

is_early_data_accepted(s) == s.edState = "accepted"

early_data(s) == s.edState = "ready"

send_close_notify(s) ==
    [s EXCEPT !.tx = Append(@, Cn), !.cn = Min(@ + 1, MaxNotify), !.sess = TRUE]

\* process_new_packets on one record read from the raw endpoint
process_new_packets(s, rec) ==
    CASE rec = "hs" /\ s.hsLeft > 1 ->
            [s |-> [s EXCEPT !.hsLeft = @ - 1, !.tx = Append(@, Hs)], res |-> "ok"]
      [] rec = "hs" /\ s.hsLeft = 1 ->
            [s |-> [s EXCEPT !.hsLeft = 0, !.tx = Append(@, Hs),
                             !.edState = IF @ = "ready"
                                         THEN (IF peerAccepts THEN "accepted" ELSE "rejected")
                                         ELSE @],
             res |-> "ok"]
      [] rec = "hs" /\ s.hsLeft = 0 -> [s |-> s, res |-> "ok"]
      [] rec = "x" /\ s.hsLeft = 0 -> [s |-> [s EXCEPT !.rx = Append(@, "x")], res |-> "ok"]
      [] OTHER -> [s |-> s, res |-> "InvalidData"]

\* Completion loop, step 1: hand the queued ciphertext to the raw endpoint
\* until the queue is empty or the endpoint would block.
write_io(s) ==
    IF ~wants_write(s) THEN [s |-> s, res |-> "ok", wr |-> 0, blocked |-> FALSE]
    ELSE LET k == Min(Len(s.tx), s.wcap) IN
         [s |-> [s EXCEPT !.tx = Drop(@, k), !.wire = @ \o Take(s.tx, k),
                          !.wcap = @ - k, !.io = TRUE],
          res |-> "ok", wr |-> k, blocked |-> Len(s.tx) > s.wcap]

\* Completion loop, step 3: what a read that took a record returns once the
\* session has processed it.
read_done(p) == [s |-> p.s, res |-> p.res, rd |-> 1, blocked |-> FALSE]

\* Completion loop, steps 2 and 3: one read from the raw endpoint into the
\* session, then process_new_packets.
read_io(s) ==
    IF s.eof \/ ~wants_read(s) THEN [s |-> s, res |-> "ok", rd |-> 0, blocked |-> FALSE]
    ELSE IF s.inq = <<>>
    THEN [s |-> [s EXCEPT !.io = TRUE], res |-> "ok", rd |-> 0, blocked |-> TRUE]
    ELSE IF Head(s.inq) = "eof"
    THEN [s |-> [s EXCEPT !.eof = TRUE, !.io = TRUE], res |-> "ok", rd |-> 0,
          blocked |-> FALSE]
    ELSE IF Head(s.inq) \in ErrKinds
    THEN [s |-> [s EXCEPT !.inq = Tail(@), !.io = TRUE], res |-> Head(s.inq),
          rd |-> 0, blocked |-> FALSE]
    ELSE read_done(process_new_packets([s EXCEPT !.inq = Tail(@), !.io = TRUE], Head(s.inq)))

\* One round of the completion loop, after its write step w and read step r:
\* rd and wr are the bytes read and written so far, rb and wb say which side
\* blocked.
io_round_sum(w, r, rd, wr) ==
    [s |-> r.s, res |-> r.res, rd |-> rd + r.rd, wr |-> wr + w.wr, rb |-> r.blocked,
     wb |-> w.blocked]

\* One round of the completion loop, after its write step w.
io_round_read(w, rd, wr) ==
    IF w.res # "ok"
    THEN [s |-> w.s, res |-> w.res, rd |-> rd, wr |-> wr, rb |-> FALSE, wb |-> FALSE]
    ELSE io_round_sum(w, read_io(w.s), rd, wr)

\* One round of the completion loop: drain the session's ciphertext, read
\* once, process.
io_round(s, rd, wr) == io_round_read(write_io(s), rd, wr)

\* The completion loop: rounds are repeated until the session needs no further
\* immediate I/O (the handshake is over) or the raw endpoint would block;
\* focus is the dimension the caller cares about: "Empty" (both), "Readable"
\* or "Writable", and decides between Pending and Ready when the endpoint
\* blocked.  A handshake cut short by end-of-stream is an error.
RECURSIVE io_loop(_, _, _, _)

\* The completion loop after the round r, entered with rd and wr bytes.
io_decide(r, focus, rd, wr) ==
    LET would_block == CASE focus = "Readable" -> r.rb
                         [] focus = "Writable" -> r.wb
                         [] OTHER -> r.wb \/ r.rb
        progress == CASE focus = "Readable" -> r.rd > 0
                      [] focus = "Writable" -> r.wr > 0
                      [] OTHER -> r.rd > 0 \/ r.wr > 0
        again == is_handshaking(r.s) /\ ~r.wb /\ ~r.rb /\ r.rd + r.wr > rd + wr
    IN  CASE r.res # "ok" -> [s |-> r.s, res |-> r.res, rd |-> r.rd, wr |-> r.wr]
          [] r.res = "ok" /\ r.s.eof /\ is_handshaking(r.s) ->
                [s |-> r.s, res |-> "UnexpectedEof", rd |-> r.rd, wr |-> r.wr]
          [] r.res = "ok" /\ ~r.s.eof /\ again -> io_loop(r.s, focus, r.rd, r.wr)
          [] OTHER ->
                [s |-> r.s,
                 res |-> IF would_block /\ (is_handshaking(r.s) \/ ~progress)
                         THEN "pending" ELSE "ok",
                 rd |-> r.rd, wr |-> r.wr]

io_loop(s, focus, rd, wr) == io_decide(io_round(s, rd, wr), focus, rd, wr)

complete_inner_io(s, focus) == io_loop([s EXCEPT !.sess = TRUE], focus, 0, 0)

complete_io(s) == complete_inner_io(s, "Empty")

\* ------------------------------------------------- Stream (bridging layer)
\* Drive the completion loop while the session wants ciphertext to read;
\* stop at end-of-stream (a round that read nothing and did not block).
RECURSIVE drive_read(_)

\* drive_read after the completion loop answered r.
drive_read_next(r) ==
    IF r.res # "ok" THEN [s |-> r.s, res |-> r.res]
    ELSE IF r.rd = 0 THEN [s |-> r.s, res |-> "ok"]
    ELSE drive_read(r.s)

drive_read(s) ==
    IF ~wants_read(s) THEN [s |-> s, res |-> "ok"]
    ELSE drive_read_next(complete_inner_io(s, "Readable"))

\* Drive the completion loop until the session has no ciphertext to write.
RECURSIVE drive_write(_)

\* drive_write after the completion loop answered r.
drive_write_next(r) ==
    IF r.res # "ok" THEN [s |-> r.s, res |-> r.res] ELSE drive_write(r.s)

drive_write(s) ==
    IF ~wants_write(s) THEN [s |-> s, res |-> "ok"]
    ELSE drive_write_next(complete_inner_io(s, "Writable"))

\* Stream::poll_read once the completion loop was driven (d): copy the
\* decrypted plaintext into a buffer of n bytes.
session_read(d, n) ==
    IF d.res # "ok" THEN [s |-> d.s, res |-> d.res, n |-> 0]
    ELSE [s |-> [d.s EXCEPT !.rx = Drop(@, Min(n, Len(d.s.rx)))], res |-> "ok",
          n |-> Min(n, Len(d.s.rx))]

\* Stream::poll_read: drive the completion loop, then read the plaintext.
Stream_poll_read(s0, n) == session_read(drive_read([s0 EXCEPT !.sess = TRUE]), n)

\* Stream::poll_write once the completion loop was driven (d): hand buf to
\* the session, which accepts at most scap bytes (none under backpressure).
session_write(d, buf) ==
    IF d.res # "ok" THEN [s |-> d.s, res |-> d.res, n |-> 0]
    ELSE [s |-> [d.s EXCEPT !.tx = @ \o AppRecords(Take(buf, Min(Len(buf), d.s.scap))),
                            !.sent = @ \o Take(buf, Min(Len(buf), d.s.scap))],
          res |-> "ok", n |-> Min(Len(buf), d.s.scap)]

\* Stream::poll_write: drive the completion loop, then write the plaintext.
Stream_poll_write(s0, buf) == session_write(drive_write([s0 EXCEPT !.sess = TRUE]), buf)

\* Stream::poll_flush once the session was drained (d): flush the raw
\* endpoint, whose answer is fr.
raw_flush(d, fr) ==
    IF d.res # "ok" THEN [s |-> d.s, res |-> d.res]
    ELSE [s |-> [d.s EXCEPT !.io = TRUE], res |-> fr]

\* Stream::poll_flush: drain the session, then flush the raw endpoint.
Stream_poll_flush(s0, fr) == raw_flush(drive_write([s0 EXCEPT !.sess = TRUE]), fr)

\* ------------------------------------------------------- MidHandshake::poll
\* client.rs 59-61: the second step, after the first one answered r1.
poll_wants_write(r1) ==
    IF r1.res # "ok" THEN [s |-> r1.s, res |-> r1.res]
    ELSE IF wants_write(r1.s) THEN complete_io(r1.s)
    ELSE [s |-> r1.s, res |-> "ok"]

\* client.rs 55-57: the first step on the Stream s.
poll_is_handshaking(s) ==
    IF is_handshaking(s) THEN complete_io(s) ELSE [s |-> s, res |-> "ok"]

\* client.rs 50-62: the Handshaking arm; res "ok" means fall through to the
\* mem::replace.
poll_handshaking(st, s0) ==
    poll_wants_write(poll_is_handshaking([s0 EXCEPT !.eof = ~readable(st), !.sess = TRUE]))

\* Mutant of poll_replace: the slot is not poisoned when the stream is taken.
poll_replace_keeps_slot(m) ==
    IF m = "End" THEN [mid |-> "End", res |-> "panic", yield |-> 0]
    ELSE [mid |-> m, res |-> "ok", yield |-> 1]

\* client.rs 64-69: mem::replace(this, End) and the match on the old value.
poll_replace(m) ==
    IF m = "End" THEN [mid |-> "End", res |-> "panic", yield |-> 0]
    ELSE [mid |-> "End", res |-> "ok", yield |-> 1]

\* client.rs 64-69, with the session and endpoint s the first half left.
poll_end(e, s) == [mid |-> e.mid, s |-> s, res |-> e.res, yield |-> e.yield]

\* Mutant of poll_after: the slot is poisoned before the handshake step's
\* result is looked at.
poll_after_consumes(m, h) ==
    IF h.res # "ok" THEN [mid |-> "End", s |-> h.s, res |-> h.res, yield |-> 0]
    ELSE poll_end(poll_replace(m), h.s)

\* client.rs 47-70, after the Handshaking arm answered h.
poll_after(m, h) ==
    IF h.res # "ok" THEN [mid |-> m, s |-> h.s, res |-> h.res, yield |-> 0]
    ELSE poll_end(poll_replace(m), h.s)

\* Mutant of poll: the EarlyData variant is driven like the Handshaking one.
poll_drives_every_variant(m, st, s0) ==
    poll_after(m, IF m # "End" THEN poll_handshaking(st, s0)
                  ELSE [s |-> s0, res |-> "ok"])

\* client.rs 47-70
poll(m, st, s0) ==
    poll_after(m, IF m = "Handshaking" THEN poll_handshaking(st, s0)
                  ELSE [s |-> s0, res |-> "ok"])

\* ------------------------------------------------------ TlsStream, read path
\* client.rs 97-103 and 167-173: the fallback replay of the early data.
RECURSIVE replay(_, _, _)

\* client.rs 100-101 and 170-171: the loop body after Stream::poll_write
\* answered w.  After Ready(Ok(0)) the cursor is where it was and the next
\* iteration repeats this one: the loop does not end (res "spin").
replay_next(w, p, d) ==
    IF w.res # "ok" THEN [s |-> w.s, pos |-> p, res |-> w.res]
    ELSE IF w.n = 0 THEN [s |-> w.s, pos |-> p, res |-> "spin"]
    ELSE replay(w.s, p + w.n, d)

replay(s, p, d) ==
    IF p >= Len(d) THEN [s |-> s, pos |-> p, res |-> "ok"]
    ELSE replay_next(Stream_poll_write(s, Drop(d, p)), p, d)

\* client.rs 105-107 and 175-177: after the replay answered r, leave EarlyData
\* and clear the buffer.
leave_end(st, d, r) ==
    IF r.res # "ok"
    THEN [state |-> st, pos |-> r.pos, data |-> d, s |-> r.s, res |-> r.res]
    ELSE [state |-> "Stream", pos |-> r.pos, data |-> <<>>, s |-> r.s, res |-> "ok"]

\* client.rs 97-107 and 167-177: after the handshake step answered h.
leave_replay(st, p, d, h) ==
    IF h.res # "ok"
    THEN [state |-> st, pos |-> p, data |-> d, s |-> h.s, res |-> h.res]
    ELSE leave_end(st, d, IF ~is_early_data_accepted(h.s) THEN replay(h.s, p, d)
                          ELSE [s |-> h.s, pos |-> p, res |-> "ok"])

\* client.rs 92-107 and 162-177: finish the handshake, replay, leave
\* EarlyData.  res "ok" means the state is now Stream and data is cleared.
leave_early_data(st, p, d, s0) ==
    leave_replay(st, p, d, poll_is_handshaking([s0 EXCEPT !.sess = TRUE]))

\* Mutant of read_aborted: the closing notification is sent without asking
\* whether the write half is still open.
read_aborted_always_notifies(st, s) ==
    [state |-> shutdown_write(shutdown_read(st)), s |-> send_close_notify(s),
     res |-> "ok", n |-> 0]

\* client.rs 122-129: the arm for a ConnectionAborted error.
read_aborted(st, s) ==
    IF writeable(shutdown_read(st))
    THEN [state |-> shutdown_write(shutdown_read(st)), s |-> send_close_notify(s),
          res |-> "ok", n |-> 0]
    ELSE [state |-> shutdown_read(st), s |-> s, res |-> "ok", n |-> 0]

\* Mutant of read_result: end-of-stream assigns ReadShutdown instead of
\* calling shutdown_read.
read_result_assigns_state(st, r) ==
    CASE r.res = "ok" /\ r.n = 0 ->
            [state |-> "ReadShutdown", s |-> r.s, res |-> "ok", n |-> 0]
      [] r.res = "ok" /\ r.n > 0 -> [state |-> st, s |-> r.s, res |-> "ok", n |-> r.n]
      [] r.res = "ConnectionAborted" -> read_aborted(st, r.s)
      [] OTHER -> [state |-> st, s |-> r.s, res |-> r.res, n |-> 0]

\* Mutant of read_result: every error closes the read half before it is
\* returned.
read_result_closes_on_error(st, r) ==
    CASE r.res = "ok" /\ r.n = 0 ->
            [state |-> shutdown_read(st), s |-> r.s, res |-> "ok", n |-> 0]
      [] r.res = "ok" /\ r.n > 0 -> [state |-> st, s |-> r.s, res |-> "ok", n |-> r.n]
      [] r.res = "ConnectionAborted" -> read_aborted(st, r.s)
      [] r.res = "pending" -> [state |-> st, s |-> r.s, res |-> r.res, n |-> 0]
      [] OTHER -> [state |-> shutdown_read(st), s |-> r.s, res |-> r.res, n |-> 0]

\* client.rs 116-132: the match on the result r of Stream::poll_read.
read_result(st, r) ==
    CASE r.res = "ok" /\ r.n = 0 ->
            [state |-> shutdown_read(st), s |-> r.s, res |-> "ok", n |-> 0]
      [] r.res = "ok" /\ r.n > 0 -> [state |-> st, s |-> r.s, res |-> "ok", n |-> r.n]
      [] r.res = "ConnectionAborted" -> read_aborted(st, r.s)
      [] OTHER -> [state |-> st, s |-> r.s, res |-> r.res, n |-> 0]

\* The outcome m of a poll_read arm together with raw, what Stream::poll_read
\* answered ("none" when it was not called).
with_raw(m, raw) ==
    [state |-> m.state, s |-> m.s, res |-> m.res, n |-> m.n, raw |-> raw]

\* client.rs 116: the match of read_result, keeping what was matched.
read_match(st, r) == with_raw(read_result(st, r), r.res)

\* Mutant of read_stream: the arm of the closed read half is missing, every
\* state reads through the Stream.
read_stream_no_closed_arm(st, s0, n) ==
    with_raw(read_result(st, Stream_poll_read([s0 EXCEPT !.eof = ~readable(st)], n)),
             "none")

\* client.rs 111-134: the arms for the states other than EarlyData.
read_stream(st, s0, n) ==
    IF st \in {"Stream", "WriteShutdown"}
    THEN read_match(st, Stream_poll_read([s0 EXCEPT !.eof = ~readable(st)], n))
    ELSE [state |-> st, s |-> s0, res |-> "ok", n |-> 0, raw |-> "none"]

\* The outcome r of the read arms with the early-data buffer (p, d).
with_buffer(r, p, d) ==
    [state |-> r.state, pos |-> p, data |-> d, s |-> r.s, res |-> r.res, n |-> r.n,
     raw |-> r.raw]

\* client.rs 109: after leaving EarlyData answered l, poll_read again.
read_again(l, n) ==
    IF l.res # "ok"
    THEN [state |-> l.state, pos |-> l.pos, data |-> l.data, s |-> l.s, res |-> l.res,
          n |-> 0, raw |-> "none"]
    ELSE with_buffer(read_stream(l.state, l.s, n), l.pos, l.data)

\* client.rs 82-136
poll_read(st, p, d, s0, n) ==
    IF st = "EarlyData"
    THEN read_again(leave_early_data(st, p, d, [s0 EXCEPT !.eof = ~readable(st)]), n)
    ELSE with_buffer(read_stream(st, s0, n), p, d)

\* ----------------------------------------------------- TlsStream, write path
\* Mutant of write_early_data: the whole buffer is mirrored, not only the
\* bytes the channel accepted.
write_early_data_mirrors_all(st, p, d, s, buf) ==
    [state |-> st, pos |-> p, data |-> d \o buf,
     s |-> [s EXCEPT !.edLeft = @ - Min(Len(buf), s.edLeft), !.sess = TRUE],
     res |-> "ok", n |-> Min(Len(buf), s.edLeft)]

\* client.rs 155-160: the early-data channel takes what it has room for.
write_early_data(st, p, d, s, buf) ==
    [state |-> st, pos |-> p, data |-> d \o Take(buf, Min(Len(buf), s.edLeft)),
     s |-> [s EXCEPT !.edLeft = @ - Min(Len(buf), s.edLeft), !.sess = TRUE],
     res |-> "ok", n |-> Min(Len(buf), s.edLeft)]

\* Mutant of write_done: the count reported to the caller is one more than
\* the session accepted.
write_done_counts_one_more(st, p, d, w) ==
    [state |-> st, pos |-> p, data |-> d, s |-> w.s, res |-> w.res,
     n |-> IF w.res = "ok" THEN w.n + 1 ELSE w.n]

\* The answer w of Stream::poll_write with the state and the early-data
\* buffer.
write_done(st, p, d, w) ==
    [state |-> st, pos |-> p, data |-> d, s |-> w.s, res |-> w.res, n |-> w.n]

\* client.rs 178: after leaving EarlyData answered l, the ordinary write.
write_after(l, buf) ==
    IF l.res # "ok"
    THEN [state |-> l.state, pos |-> l.pos, data |-> l.data, s |-> l.s, res |-> l.res,
          n |-> 0]
    ELSE write_done(l.state, l.pos, l.data, Stream_poll_write(l.s, buf))

\* client.rs 148-181: the match on the state, on the Stream s.
write_match(st, p, d, s, buf) ==
    IF st = "EarlyData"
    THEN IF early_data(s) THEN write_early_data(st, p, d, s, buf)
         ELSE write_after(leave_early_data(st, p, d, s), buf)
    ELSE write_done(st, p, d, Stream_poll_write(s, buf))

\* client.rs 143-182
poll_write(st, p, d, s0, buf) ==
    write_match(st, p, d, [s0 EXCEPT !.eof = ~readable(st)], buf)

\* Mutant of flush_done: a completed flush closes the write half.
flush_done_shuts_write(st, f) ==
    [state |-> IF f.res = "ok" THEN shutdown_write(st) ELSE st, s |-> f.s, res |-> f.res]

\* The answer f of Stream::poll_flush with the state.
flush_done(st, f) == [state |-> st, s |-> f.s, res |-> f.res]

\* client.rs 184-189
poll_flush(st, s0, fr) ==
    flush_done(st, Stream_poll_flush([s0 EXCEPT !.eof = ~readable(st)], fr))

\* Mutant of close_write: the closing notification is queued on every call.
close_write_every_call(st, s) ==
    [state |-> shutdown_write(st), s |-> send_close_notify(s)]

\* client.rs 192-195: queue the closing notification if the write half is open.
close_write(st, s) ==
    IF writeable(st) THEN [state |-> shutdown_write(st), s |-> send_close_notify(s)]
    ELSE [state |-> st, s |-> s]

\* Mutant of close_io: the raw endpoint is closed whatever the flush answered.
close_io_ignores_flush(st, f, cr) ==
    [state |-> st, s |-> [f.s EXCEPT !.io = TRUE], res |-> cr, closed |-> cr = "ok",
     called |-> TRUE]

\* client.rs 200-201: after the flush answered f, close the raw endpoint,
\* whose answer is cr; called says whether io.poll_close was called, closed
\* whether it returned Ready(Ok).
close_io(st, f, cr) ==
    IF f.res # "ok"
    THEN [state |-> st, s |-> f.s, res |-> f.res, closed |-> FALSE, called |-> FALSE]
    ELSE [state |-> st, s |-> [f.s EXCEPT !.io = TRUE], res |-> cr, closed |-> cr = "ok",
          called |-> TRUE]

\* client.rs 197-201: after the closing notification (c), flush and close.
close_flush(c, fr, cr) ==
    close_io(c.state, Stream_poll_flush([c.s EXCEPT !.eof = ~readable(c.state)], fr), cr)

\* client.rs 191-202; fr and cr are the raw endpoint's answers to flush and close.
poll_close(st, s0, fr, cr) == close_flush(close_write(st, s0), fr, cr)

\* ---------------------------------------------------------------- actions
\* The last step: the call, its result, and for poll_read what the underlying
\* Stream::poll_read answered.
Ret(op, res, n, raw) == [op |-> op, res |-> res, n |-> n, raw |-> raw]

SetEnv(s) ==
    /\ hsLeft' = s.hsLeft
    /\ edState' = s.edState
    /\ edLeft' = s.edLeft
    /\ tx' = s.tx
    /\ rx' = s.rx
    /\ sent' = s.sent
    /\ cn' = s.cn
    /\ wire' = s.wire
    /\ wcap' = s.wcap
    /\ inq' = s.inq

Init ==
    /\ mid \in {"Handshaking", "EarlyData"}
    /\ yielded = 0
    /\ state = IF mid = "EarlyData" THEN "EarlyData" ELSE "Stream"
    /\ pos = 0
    /\ data = <<>>
    /\ hsLeft = HsFlights
    /\ edState = IF mid = "EarlyData" THEN "ready" ELSE "disabled"
    /\ edLeft = EdMax
    /\ tx = <<Hs>>
    /\ rx = <<>>
    /\ sent = <<>>
    /\ cn = 0
    /\ peerAccepts \in IF mid = "EarlyData" THEN BOOLEAN ELSE {FALSE}
    /\ acc = 0
    /\ wire = <<>>
    /\ wcap = WMax
    /\ inq = <<>>
    /\ ioClosed = FALSE
    /\ hung = FALSE
    /\ ret = Ret("new", "ok", 0, "none")

\* The caller polls the handshake future.
PollDone(r) ==
    /\ mid' = r.mid
    /\ yielded' = Min(yielded + r.yield, MaxYield)
    /\ SetEnv(r.s)
    /\ ret' = Ret("poll", r.res, 0, "none")
    /\ UNCHANGED <<state, pos, data, peerAccepts, acc, ioClosed, hung>>

Poll == ~hung /\ PollDone(poll(mid, state, Env(FALSE)))

\* The caller owns the stream once the future has yielded it.
PollReadDone(r) ==
    /\ state' = r.state
    /\ pos' = r.pos
    /\ data' = r.data
    /\ SetEnv(r.s)
    /\ hung' = (r.res = "spin")
    /\ ret' = Ret("poll_read", r.res, r.n, r.raw)
    /\ UNCHANGED <<mid, yielded, peerAccepts, acc, ioClosed>>

PollRead(n, cap) ==
    /\ yielded > 0 /\ ~hung
    /\ PollReadDone(poll_read(state, pos, data, EnvCap(cap), n))

PollWriteDone(r) ==
    /\ acc' = acc + r.n
    /\ state' = r.state
    /\ pos' = r.pos
    /\ data' = r.data
    /\ SetEnv(r.s)
    /\ hung' = (r.res = "spin")
    /\ ret' = Ret("poll_write", r.res, r.n, "none")
    /\ UNCHANGED <<mid, yielded, peerAccepts, ioClosed>>

PollWrite(k, cap) ==
    /\ yielded > 0 /\ ~hung
    /\ Len(sent) < MaxSent
    /\ PollWriteDone(poll_write(state, pos, data, EnvCap(cap), BufAt(acc, k)))

PollFlushDone(r) ==
    /\ state' = r.state
    /\ SetEnv(r.s)
    /\ ret' = Ret("poll_flush", r.res, 0, "none")
    /\ UNCHANGED <<mid, yielded, pos, data, peerAccepts, acc, ioClosed, hung>>

PollFlush(fr) ==
    /\ yielded > 0 /\ ~hung
    /\ PollFlushDone(poll_flush(state, Env(FALSE), fr))

PollCloseDone(r) ==
    /\ state' = r.state
    /\ SetEnv(r.s)
    /\ ioClosed' = (ioClosed \/ r.closed)
    /\ ret' = Ret("poll_close", r.res, 0, "none")
    /\ UNCHANGED <<mid, yielded, pos, data, peerAccepts, acc, hung>>

PollClose(fr, cr) ==
    /\ yielded > 0 /\ ~hung
    /\ PollCloseDone(poll_close(state, Env(FALSE), fr, cr))

\* The peer's next record, end-of-stream or failure reaches the raw endpoint.
NetDeliver(e) ==
    /\ Len(inq) < MaxInq
    /\ IF inq = <<>> THEN TRUE ELSE inq[Len(inq)] # "eof"
    /\ inq' = Append(inq, e)
    /\ ret' = Ret("net", "ok", 0, "none")
    /\ UNCHANGED <<mid, yielded, state, pos, data, hsLeft, edState, edLeft, tx,
                   rx, sent, cn, peerAccepts, acc, wire, wcap, ioClosed, hung>>

\* The raw endpoint gets room for one more record.
NetWritable ==
    /\ wcap < WMax
    /\ wcap' = wcap + 1
    /\ ret' = Ret("net", "ok", 0, "none")
    /\ UNCHANGED <<mid, yielded, state, pos, data, hsLeft, edState, edLeft, tx,
                   rx, sent, cn, peerAccepts, acc, wire, inq, ioClosed, hung>>

Next ==
    \/ Poll
    \/ \E n \in 1..MaxRead, cap \in {0, SessCap} : PollRead(n, cap)
    \/ \E k \in 1..MaxBuf, cap \in {0, SessCap} : PollWrite(k, cap)
    \/ \E fr \in RawResults : PollFlush(fr)
    \/ \E fr \in RawResults, cr \in RawResults : PollClose(fr, cr)
    \/ \E e \in NetEvents : NetDeliver(e)
    \/ NetWritable

Spec == Init /\ [][Next]_vars

TypeOK ==
    /\ mid \in {"Handshaking", "EarlyData", "End"}
    /\ state \in TlsStates
    /\ pos \in 0..EdMax
    /\ hsLeft \in 0..HsFlights
    /\ cn \in 0..MaxNotify
    /\ wcap \in 0..WMax
    /\ hung \in BOOLEAN

\* ------------------------------------------------- partial-write scenario
\* The caller has PwBytes bytes to write over a connection without early
\* data, and offers the unaccepted remainder on every call; the raw endpoint
\* accepts at most WMax records before it would block and the session at most
\* SessCap bytes per write.
PwBytes == 3 * WMax

InitPW == Init /\ mid = "Handshaking"

PollWritePW ==
    /\ yielded > 0 /\ ~hung
    /\ acc < PwBytes
    /\ PollWriteDone(poll_write(state, pos, data, Env(FALSE), BufAt(acc, PwBytes - acc)))

\* The peer sends its handshake flights, then application data.
PeerHandshake == hsLeft > 0 /\ NetDeliver("hs")

PeerData == hsLeft = 0 /\ NetDeliver("x")

\* The peer ends its side of the connection after the handshake.
PeerEof == hsLeft = 0 /\ NetDeliver("eof")

NextPW ==
    \/ Poll
    \/ PollWritePW
    \/ \E n \in 1..MaxRead : PollRead(n, SessCap)
    \/ \E fr \in RawResults : PollFlush(fr)
    \/ PeerHandshake
    \/ PeerData
    \/ PeerEof
    \/ NetWritable

\* The session and the raw endpoint s are as in the current state.
EnvSame(s) ==
    /\ s.hsLeft = hsLeft /\ s.edState = edState /\ s.edLeft = edLeft
    /\ s.tx = tx /\ s.rx = rx /\ s.sent = sent /\ s.cn = cn
    /\ s.wire = wire /\ s.wcap = wcap /\ s.inq = inq

\* A poll whose outcome is r would change nothing.
PollIdleOn(r) ==
    /\ r.mid = mid /\ yielded = Min(yielded + r.yield, MaxYield)
    /\ EnvSame(r.s) /\ ret = Ret("poll", r.res, 0, "none")

\* The future is polled until it yields; a spent future is not polled again.
PollIdle == hung \/ mid = "End" \/ PollIdleOn(poll(mid, state, Env(FALSE)))

\* A poll_write whose outcome is r would change nothing.
PollWriteIdleOn(r) ==
    /\ r.n = 0 /\ r.state = state /\ r.pos = pos /\ r.data = data
    /\ EnvSame(r.s) /\ ret = Ret("poll_write", r.res, r.n, "none")

PollWritePWIdle ==
    \/ yielded = 0 \/ hung
    \/ acc >= PwBytes
    \/ PollWriteIdleOn(poll_write(state, pos, data, Env(FALSE), BufAt(acc, PwBytes - acc)))

\* A poll_flush whose outcome is r would change nothing.
PollFlushIdleOn(r) ==
    r.state = state /\ EnvSame(r.s) /\ ret = Ret("poll_flush", r.res, 0, "none")

PollFlushIdle ==
    yielded = 0 \/ hung \/ PollFlushIdleOn(poll_flush(state, Env(FALSE), "ok"))

\* Weak fairness of the handshake poll and of poll_write with the remainder,
\* of the peer's handshake and of the raw endpoint becoming writable: the
\* caller keeps polling the future and re-invoking poll_write, the peer
\* answers, the endpoint drains.  Nothing makes the caller flush.  WF_vars(A)
\* is written as "A is infinitely often taken or infinitely often unable to
\* change the state"; the second half is computed from the handler's outcome.
FairPW ==
    /\ []<>PollIdle \/ []<><<Poll>>_vars
    /\ []<>PollWritePWIdle \/ []<><<PollWritePW>>_vars
    /\ WF_vars(PeerHandshake)
    /\ WF_vars(NetWritable)

SpecPW == InitPW /\ [][NextPW]_vars /\ FairPW

\* ----------------------------------------------------------------- claims
CountCn(q) == Cardinality({i \in 1..Len(q) : q[i] = Cn})

\* C1: whenever a poll of the Handshaking variant yields the stream, the
\* session has finished the handshake and no longer wants to write.
C1_YieldMeansHandshakeFlushed ==
    (ret.op = "poll" /\ ret.res = "ok" /\ edState = "disabled")
        => (hsLeft = 0 /\ tx = <<>>)

\* C2: the handshake future yields a stream at most once, and every poll made
\* after the one that yielded it panics and yields nothing.
C2_SingleUse ==
    /\ [](yielded <= 1)
    /\ [][(ret'.op = "poll" /\ mid = "End")
             => (ret'.res = "panic" /\ yielded' = yielded /\ mid' = "End")]_vars

C2_Witness == ret.op = "poll" /\ ret.res = "panic" /\ yielded = 1

\* C3: the connection state only moves forward: a closed read half stays
\* closed, a closed write half stays closed, FullyShutdown is never left and
\* EarlyData is never entered again.
C3_Monotonic ==
    [][/\ ~readable(state) => ~readable(state')
       /\ ~writeable(state) => ~writeable(state')
       /\ state = "FullyShutdown" => state' = "FullyShutdown"
       /\ state # "EarlyData" => state' # "EarlyData"]_vars

C3_Witness ==
    /\ state = "FullyShutdown"
    /\ ret.op = "poll_read" /\ ret.raw = "none"
    /\ edState # "disabled"

Untouched(r) == ~r.s.io /\ ~r.s.sess

\* C4: a poll_read that obtains zero bytes closes the read half; with the
\* read half closed, poll_read returns Ready(Ok(0)) at once, calls neither
\* the raw endpoint nor the session, and changes nothing.
C4_ReadAfterEof ==
    /\ [][(ret'.op = "poll_read" /\ ret'.res = "ok" /\ ret'.n = 0) => ~readable(state')]_vars
    /\ [][(ret'.op = "poll_read" /\ ~readable(state))
             => /\ ret'.res = "ok" /\ ret'.n = 0 /\ ret'.raw = "none"
                /\ UNCHANGED <<state, pos, data, hsLeft, edState, edLeft, tx, rx, sent, cn,
                               wire, wcap, inq, ioClosed>>]_vars
    /\ [](~readable(state)
             => \A n \in 1..MaxRead : Untouched(poll_read(state, pos, data, Env(FALSE), n)))

C4_Witness ==
    /\ ~readable(state)
    /\ ret = Ret("poll_read", "ok", 0, "none")
    /\ inq # <<>>
    /\ tx # <<>> /\ wcap > 0

\* C5: a poll_read that observes ConnectionAborted returns Ready(Ok(0)) and
\* ends in FullyShutdown; it queues exactly one closing notification if the
\* write half was open and none if it was closed.
C5_AbortIsEof ==
    [][(ret'.op = "poll_read" /\ ret'.raw = "ConnectionAborted")
          => /\ ret'.res = "ok" /\ ret'.n = 0
             /\ state' = "FullyShutdown"
             /\ cn' = cn + (IF writeable(state) THEN 1 ELSE 0)
             /\ CountCn(wire' \o tx') = CountCn(wire \o tx) + (IF writeable(state) THEN 1 ELSE 0)]_vars

C5_Witness ==
    /\ ret = Ret("poll_read", "ok", 0, "ConnectionAborted")
    /\ state = "FullyShutdown"
    /\ cn = 1 /\ tx # <<>> /\ tx[Len(tx)] = Cn
    /\ ~ioClosed

\* C6: a ConnectionReset error met by poll_read is handled like
\* ConnectionAborted: the read half is closed and Ready(Ok(0)) is returned.
C6_ResetIsEof ==
    (ret.op = "poll_read" /\ ret.raw = "ConnectionReset")
        => (ret.res = "ok" /\ ret.n = 0 /\ ~readable(state))

\* C7 as stated: a poll_read that returns an error or Pending returns what the
\* underlying read answered, queues no closing notification, and leaves the
\* connection state as it was before the call.
C7_ErrorLeavesState ==
    [][(ret'.op = "poll_read" /\ ret'.res # "ok")
          => /\ state' = state
             /\ cn' = cn
             /\ ret'.raw # "none" => ret'.res = ret'.raw]_vars

\* C7 amended: a poll_read that returns an error or Pending returns what the
\* underlying read answered, queues no closing notification and closes no
\* half: the state is as before the call, or, for a call entered in
\* EarlyData, it is EarlyData or Stream.
C7_ErrorClosesNothing ==
    [][(ret'.op = "poll_read" /\ ret'.res # "ok")
          => /\ state' = state \/ (state = "EarlyData" /\ state' = "Stream")
             /\ cn' = cn
             /\ CountCn(wire' \o tx') = CountCn(wire \o tx)
             /\ ret'.raw # "none" => ret'.res = ret'.raw]_vars

C7_Witness ==
    /\ ret = Ret("poll_read", "ConnectionReset", 0, "ConnectionReset")
    /\ state = "WriteShutdown"

\* C8: the session is asked for a closing notification at most once, at the
\* step that takes the write half from open to closed.
C8_NotifyOnce ==
    /\ [](cn <= 1 /\ CountCn(wire \o tx) = cn)
    /\ [][cn' # cn => (writeable(state) /\ ~writeable(state'))]_vars
    /\ [][(writeable(state) /\ ~writeable(state')) => cn' = cn + 1]_vars

C8_Witness ==
    /\ cn = 1 /\ ioClosed
    /\ ret.op = "poll_write" /\ ret.res = "ok" /\ ret.n > 0

\* C9: with the write half closed, poll_write hands no plaintext to the
\* session and accepts none from the caller.
C9_NoWriteAfterClose ==
    [][(ret'.op = "poll_write" /\ ~writeable(state)) => (sent' = sent /\ acc' = acc)]_vars

\* The plaintext the early-data channel has accepted so far.
EarlyBytes == BufAt(0, EdMax - edLeft)

\* C10: once the stream has left EarlyData and the peer has rejected the early
\* data, the bytes the early-data channel accepted have been handed to the
\* ordinary write path, in order and once each, ahead of any other byte.
C10_ReplayComplete ==
    (state # "EarlyData" /\ edState = "rejected")
        => (Len(sent) >= Len(EarlyBytes) /\ Take(sent, Len(EarlyBytes)) = EarlyBytes)

\* Outside EarlyData the accumulated early-data bytes are empty.
C11_DataCleared == state # "EarlyData" => data = <<>>

\* Outside EarlyData the replay cursor is zero.
C11_CursorReset == state # "EarlyData" => pos = 0

\* C11: outside EarlyData the early-data buffer is empty and the replay cursor
\* is zero, whichever operation took the stream out of EarlyData.
C11_BufferClearedOutsideEarlyData == C11_DataCleared /\ C11_CursorReset

\* The plaintext bytes carried by the application-data records of q, in order.
RECURSIVE AppBytes(_)
AppBytes(q) ==
    IF q = <<>> THEN <<>>
    ELSE IF Head(q)[1] = "app" THEN <<Head(q)[2]>> \o AppBytes(Tail(q))
    ELSE AppBytes(Tail(q))

\* The caller keeps flushing: a poll_flush whose raw flush completes is taken
\* again and again unless it would change nothing.
CallerFlushes == []<>PollFlushIdle \/ []<><<PollFlush("ok")>>_vars

\* C12 (amended): outside EarlyData poll_write reports exactly the bytes the
\* session accepted, the first of the buffer offered; Pending and errors
\* accept none; the records written and queued carry exactly the accepted
\* bytes in order; and a caller that keeps offering the remainder of its 3N
\* bytes and flushes after its writes gets all of them delivered to the raw
\* endpoint, once each and in order.
C12_PartialWritesFlushed ==
    /\ [][(ret'.op = "poll_write" /\ state # "EarlyData")
             => /\ acc' = acc + ret'.n
                /\ sent' = sent \o BufAt(acc, ret'.n)
                /\ ret'.res # "ok" => ret'.n = 0]_vars
    /\ [](sent = BufAt(0, acc) /\ AppBytes(wire \o tx) = sent)
    /\ CallerFlushes => <>[](AppBytes(wire) = BufAt(0, PwBytes))

\* C12: as above, but the caller only re-invokes poll_write with the
\* remainder: the 3N bytes are eventually delivered to the raw endpoint
\* without any flush.
C12_PartialWrites ==
    /\ [][(ret'.op = "poll_write" /\ state # "EarlyData")
             => /\ acc' = acc + ret'.n
                /\ sent' = sent \o BufAt(acc, ret'.n)
                /\ ret'.res # "ok" => ret'.n = 0]_vars
    /\ [](sent = BufAt(0, acc) /\ AppBytes(wire \o tx) = sent)
    /\ <>[](AppBytes(wire) = BufAt(0, PwBytes))

C12_Witness ==
    /\ acc = PwBytes
    /\ AppBytes(wire) = BufAt(0, PwBytes)
    /\ ret.op = "poll_flush"

\* The outcome r of a poll_close whose raw flush answers fr and whose raw
\* close answers cr: the raw close is called only if the flush completed,
\* that is the session's ciphertext is written out and the raw flush
\* returned Ready(Ok); otherwise Pending or an error is returned, Pending
\* only while ciphertext is left or the raw flush is pending.  Either way the
\* write half is closed.
CloseOrdered(r, fr, cr) ==
    /\ ~writeable(r.state)
    /\ r.called => (r.s.tx = <<>> /\ fr = "ok" /\ r.res = cr /\ (r.closed <=> cr = "ok"))
    /\ ~r.called => (r.res # "ok" /\ ~r.closed)
    /\ (~r.called /\ r.res = "pending") => (r.s.tx # <<>> \/ fr = "pending")
    /\ (~r.called /\ r.s.tx = <<>> /\ fr = "ok") => r.res \notin RawResults

\* C13: poll_close closes the raw endpoint only after the flush step has
\* completed, with every queued record, the closing notification included,
\* written to the raw endpoint; while the flush is pending or fails it returns
\* that result without calling close, and the write half is already closed.
C13_CloseAfterFlush ==
    /\ [](yielded > 0
            => \A fr \in RawResults, cr \in RawResults :
                  CloseOrdered(poll_close(state, Env(FALSE), fr, cr), fr, cr))
    /\ [][ret'.op = "poll_close" => ~writeable(state')]_vars
    /\ [][(ret'.op = "poll_close" /\ ioClosed' /\ ~ioClosed)
             => (ret'.res = "ok" /\ tx' = <<>> /\ CountCn(wire') = 1)]_vars

C13_Witness ==
    /\ ioClosed /\ ret = Ret("poll_close", "ok", 0, "none")
    /\ tx = <<>> /\ wire # <<>> /\ wire[Len(wire)] = Cn
    /\ state = "WriteShutdown"

\* The outcome r of a call made no call to the raw endpoint.
NoRawIo(r) == ~r.s.io

\* C14: a poll_write in EarlyData while the session still accepts early data
\* returns Ready(Ok(len)), appends the first len bytes of the buffer to the
\* early-data buffer, calls nothing on the raw endpoint and leaves the state
\* and the replay cursor alone; in EarlyData the buffer holds exactly the
\* bytes accepted so far.
C14_EarlyDataFastPath ==
    /\ [][(ret'.op = "poll_write" /\ state = "EarlyData" /\ edState = "ready")
             => /\ ret'.res = "ok"
                /\ ret'.n = edLeft - edLeft'
                /\ acc' = acc + ret'.n
                /\ data' = data \o BufAt(acc, ret'.n)
                /\ state' = "EarlyData" /\ pos' = pos /\ edState' = "ready"
                /\ UNCHANGED <<hsLeft, tx, rx, sent, cn, wire, wcap, inq, ioClosed>>]_vars
    /\ []((yielded > 0 /\ state = "EarlyData" /\ edState = "ready")
             => \A k \in 1..MaxBuf :
                   NoRawIo(poll_write(state, pos, data, Env(FALSE), BufAt(acc, k))))
    /\ [](state = "EarlyData" => (data = BufAt(0, acc) /\ data = EarlyBytes))

C14_Witness ==
    /\ state = "EarlyData" /\ edState = "ready"
    /\ ret = Ret("poll_write", "ok", 1, "none")
    /\ data = BufAt(0, 2) /\ pos = 0
    /\ inq # <<>>

\* The stream leaves EarlyData for Stream only in poll_read or poll_write,
\* with the handshake over and, if the early data was rejected, with the
\* whole buffer replayed.
C15_LeaveAfterReplay ==
    [][(state = "EarlyData" /\ state' = "Stream")
          => /\ ret'.op \in {"poll_read", "poll_write"}
             /\ hsLeft' = 0
             /\ edState' \in {"accepted", "rejected"}
             /\ edState' = "rejected" => (pos' = Len(data) /\ Take(sent', Len(data)) = data)]_vars

\* A poll_write that leaves EarlyData hands the caller's new bytes to the
\* ordinary write after the replayed ones.
C15_NewBytesAfterReplay ==
    [][(ret'.op = "poll_write" /\ state = "EarlyData" /\ state' = "Stream" /\ ret'.res = "ok")
          => sent' = (IF edState' = "rejected" THEN data ELSE <<>>) \o BufAt(acc, ret'.n)]_vars

\* No plaintext goes through the ordinary write, and none is read, while the
\* session is handshaking.
C15_NoDataWhileHandshaking ==
    [][(sent' # sent \/ (ret'.op = "poll_read" /\ ret'.n > 0)) => hsLeft' = 0]_vars

\* C15: the stream leaves EarlyData, and poll_write forwards new bytes, only
\* after the handshake is over and the rejected early data is replayed in
\* full; no ordinary write or read of application data happens while the
\* session is handshaking.
C15_HandshakeBeforeData ==
    C15_LeaveAfterReplay /\ C15_NewBytesAfterReplay /\ C15_NoDataWhileHandshaking

\* C16 as stated: a poll of the EarlyData variant yields the stream only with
\* the handshake complete and the early data resolved.
C16_YieldAfterHandshake ==
    (ret.op = "poll" /\ ret.res = "ok" /\ edState # "disabled")
        => (hsLeft = 0 /\ edState # "ready")

\* C16 amended: a poll of the EarlyData variant yields the stream at once,
\* in state EarlyData, without a call to the session or the raw endpoint and
\* whatever the handshake's progress; the handshake is finished later by the
\* stream's poll_read and poll_write.
C16_EarlyDataYieldsAtOnce ==
    /\ [][(ret'.op = "poll" /\ mid = "EarlyData")
             => /\ ret'.res = "ok" /\ yielded' = 1 /\ mid' = "End"
                /\ state' = "EarlyData"
                /\ UNCHANGED <<hsLeft, edState, edLeft, tx, rx, sent, cn, wire, wcap, inq>>]_vars
    /\ [](mid = "EarlyData" => Untouched(poll(mid, state, Env(FALSE))))
    /\ [][(edState = "ready" /\ edState' # "ready")
             => (yielded = 1 /\ ret'.op \in {"poll_read", "poll_write", "poll_flush", "poll_close"})]_vars

C16_Witness ==
    /\ ret = Ret("poll", "ok", 0, "none") /\ yielded = 1
    /\ state = "EarlyData" /\ edState = "ready" /\ hsLeft > 0
    /\ inq # <<>> /\ tx # <<>> /\ wcap > 0

\* C17: a poll that returns Pending or an error leaves the driver in its
\* Handshaking variant, yielding nothing; the driver moves to End only on the
\* poll that yields the stream, and only a poll of End signals misuse.
C17_PendingKeepsDriver ==
    /\ [][(ret'.op = "poll" /\ ret'.res \notin {"ok", "panic"})
             => (mid = "Handshaking" /\ mid' = "Handshaking" /\ yielded' = yielded)]_vars
    /\ [][mid' # mid
             => (ret'.op = "poll" /\ ret'.res = "ok" /\ mid' = "End"
                 /\ yielded = 0 /\ yielded' = 1)]_vars
    /\ [][(ret'.op = "poll" /\ ret'.res = "panic") => (mid = "End" /\ yielded >= 1)]_vars

C17_Witness ==
    /\ ret = Ret("poll", "pending", 0, "none")
    /\ mid = "Handshaking" /\ yielded = 0
    /\ hsLeft = 0 /\ tx # <<>> /\ wire # <<>>

\* poll_flush and the handshake future never change the connection state,
\* poll_write only from EarlyData to Stream; the read half is closed only by
\* poll_read, the write half only by poll_close or by a poll_read that met
\* ConnectionAborted.
C18_Frame ==
    /\ [][ret'.op \in {"poll_flush", "poll", "net"} => state' = state]_vars
    /\ [][ret'.op = "poll_write"
             => (state' = state \/ (state = "EarlyData" /\ state' = "Stream"))]_vars
    /\ [][(readable(state) /\ ~readable(state')) => ret'.op = "poll_read"]_vars
    /\ [][(writeable(state) /\ ~writeable(state'))
             => \/ ret'.op = "poll_close"
                \/ (ret'.op = "poll_read" /\ ret'.raw = "ConnectionAborted")]_vars

\* C18 as stated: the frame above, and a poll_read that returns n > 0 bytes
\* leaves the connection state unchanged.
C18_StateFrame ==
    /\ C18_Frame
    /\ [][(ret'.op = "poll_read" /\ ret'.res = "ok" /\ ret'.n > 0) => state' = state]_vars

\* C18 amended: the frame above, and a poll_read that returns n > 0 bytes
\* leaves the connection state unchanged, unless it was entered in EarlyData,
\* which it has left for Stream.
C18_StateFrameFromEarlyData ==
    /\ C18_Frame
    /\ [][(ret'.op = "poll_read" /\ ret'.res = "ok" /\ ret'.n > 0)
             => IF state = "EarlyData" THEN state' = "Stream" ELSE state' = state]_vars

C18_Witness ==
    /\ ret = Ret("poll_read", "ok", 1, "ok")
    /\ state = "Stream" /\ edState = "rejected"
    /\ pos > 0 /\ sent # <<>>

\* C19: a poll_read or poll_write in EarlyData never loops in the replay
\* without progress: every iteration advances the cursor or returns Pending
\* or an error, also when the ordinary write accepts zero bytes.
C19_ReplayIterationProgresses == ~hung /\ ret.res # "spin"

====
